---- MODULE Spec2Model ----
(***************************************************************************)
(* Table-free CRC-16 over the CCITT polynomial (crate crc-0x8810).         *)
(* The model follows src/src/lib.rs: the byte update primitive, the        *)
(* Algorithm engine (init / update / finalize / checksum), the Digest      *)
(* accumulator and the catalog of named parameter sets; and                *)
(* src/tests/check.rs for the check-value tests.                           *)
(***************************************************************************)
EXTENDS Integers, Sequences, FiniteSets, TLC

VARIABLES
    pc,        \* position of the caller: which operation has been applied
    crc,       \* primitive: the register handed to update
    data,      \* primitive: the byte handed to update
    out,       \* primitive: the register update returned
    alg,       \* the Algorithm value in use (a record of the six fields)
    bytes,     \* one-shot: the buffer handed to checksum
    result,    \* one-shot: the value checksum returned (-1 before the call)
    digests,   \* the Digest accumulators, by identity
    testRes,   \* tests/check.rs: per test, the checksum computed (-1: not run)
    altRes     \* the same tests under the reflect-init-always engine

vars == <<pc, crc, data, out, alg, bytes, result, digests, testRes, altRes>>

----------------------------------------------------------------------------
(* Bounds of the model *)

\* registers tried against the primitive (spread over the 16-bit range)
NumRegs == 1024
\* distinct byte values a buffer may hold
NumByteVals == 3
\* longest buffer handed to checksum
MaxLen == 3
\* Digest accumulators alive at once
NumDigests == 2
\* longest chunk handed to one Digest::update call
MaxChunk == 2
\* most bytes fed to all the Digests together
MaxFed == 3

----------------------------------------------------------------------------
(* Fixed-width integer arithmetic: u8 and u16 *)

U8 == 256
U16 == 65536

RECURSIVE BitXor(_, _)
BitXor(a, b) ==
    IF a = 0 THEN b
    ELSE IF b = 0 THEN a
    ELSE ((a + b) % 2) + 2 * BitXor(a \div 2, b \div 2)

RECURSIVE BitOr(_, _)
BitOr(a, b) ==
    IF a = 0 THEN b
    ELSE IF b = 0 THEN a
    ELSE (IF a % 2 = 1 \/ b % 2 = 1 THEN 1 ELSE 0) + 2 * BitOr(a \div 2, b \div 2)

\* x << n in a w-bit unsigned integer: the bits shifted out are dropped
Shl(x, n, w) == (x * (2 ^ n)) % w

\* x >> n
Shr(x, n) == x \div (2 ^ n)

RECURSIVE ReverseBits(_, _, _)
ReverseBits(x, n, acc) ==
    IF n = 0 THEN acc
    ELSE ReverseBits(x \div 2, n - 1, 2 * acc + (x % 2))

\* u8::reverse_bits
reverse_bits8(x) == ReverseBits(x, 8, 0)

\* u16::reverse_bits
reverse_bits16(x) == ReverseBits(x, 16, 0)

----------------------------------------------------------------------------
(* The byte update primitive *)

\* the same closed form with the nibble mix left at full width (no u8 wrap)
update_no_truncation(c, d) ==
    LET d1 == BitXor(d, c % U8)
        d2 == BitXor(d1, d1 * 16)
    IN  BitXor(BitXor(BitOr(Shl(d2, 8, U16), Shr(c, 8)), Shr(d2, 4)),
               Shl(d2, 3, U16))

\* pub const fn update(crc: u16, data: u8) -> u16
update(c, d) ==
    LET d1 == BitXor(d, c % U8)                 \* data ^ (crc as u8)
        d2 == BitXor(d1, Shl(d1, 4, U8))        \* data ^ (data << 4), in u8
    IN  BitXor(BitXor(BitOr(Shl(d2, 8, U16), Shr(c, 8)), Shr(d2, 4)),
               Shl(d2, 3, U16))

----------------------------------------------------------------------------
(* The Algorithm engine *)

\* init() without the reflection
init_never_reflects(a) == a.init

\* const fn init(&self) -> u16
init(a) == IF a.refin THEN reverse_bits16(a.init) ELSE a.init

\* one of the two while loops of Algorithm::update, its state (crc, i) carried
\* from one iteration to the next; reflect: the loop of the refin = false branch
WhileLoop(bs, reflect, c) ==
    LET loop[s \in [crc : 0 .. U16 - 1, i : 0 .. Len(bs)]] ==
            IF s.i < Len(bs)
            THEN loop[[crc |-> update(s.crc,
                                      IF reflect THEN reverse_bits8(bs[s.i + 1])
                                      ELSE bs[s.i + 1]),
                       i |-> s.i + 1]]
            ELSE s.crc
    IN  loop[[crc |-> c, i |-> 0]]

\* update() that never reflects an input byte
Algorithm_update_no_reflect(a, c, bs) == WhileLoop(bs, FALSE, c)

\* update() whose loops stop one byte early
Algorithm_update_short(a, c, bs) ==
    WhileLoop(IF Len(bs) = 0 THEN bs ELSE SubSeq(bs, 1, Len(bs) - 1), ~a.refin, c)

\* const fn update(&self, mut crc: u16, bytes: &[u8]) -> u16
Algorithm_update(a, c, bs) ==
    IF a.refin THEN WhileLoop(bs, FALSE, c)
    ELSE WhileLoop(bs, TRUE, c)

\* finalize() with the refout test inverted
finalize_inverted(a, c) ==
    BitXor(IF a.refout THEN reverse_bits16(c) ELSE c, a.xorout)

\* finalize() without the final XOR
finalize_no_xorout(a, c) == IF ~a.refout THEN reverse_bits16(c) ELSE c

\* const fn finalize(&self, mut crc: u16) -> u16
finalize(a, c) ==
    LET c1 == IF ~a.refout THEN reverse_bits16(c) ELSE c
    IN  BitXor(c1, a.xorout)

\* pub const fn checksum(&self, bytes: &[u8]) -> u16
checksum(a, bs) ==
    LET c0 == init(a)
        c1 == Algorithm_update(a, c0, bs)
    IN  finalize(a, c1)

----------------------------------------------------------------------------
(* The catalog *)

CRC_16_XMODEM ==
    [init |-> 0, refin |-> FALSE, refout |-> FALSE, xorout |-> 0,
     check |-> 12739, residue |-> 0]                    \* check 0x31c3

CRC_16_GENIBUS ==
    [init |-> 65535, refin |-> FALSE, refout |-> FALSE, xorout |-> 65535,
     check |-> 54862, residue |-> 7439]                 \* 0xd64e, 0x1d0f

CRC_16_GSM ==
    [init |-> 0, refin |-> FALSE, refout |-> FALSE, xorout |-> 65535,
     check |-> 52796, residue |-> 7439]                 \* 0xce3c, 0x1d0f

CRC_16_IBM_3740 ==
    [init |-> 65535, refin |-> FALSE, refout |-> FALSE, xorout |-> 0,
     check |-> 10673, residue |-> 0]                    \* 0x29b1

CRC_16_AUTOSAR == CRC_16_IBM_3740

CRC_16_IBM_SDLC ==
    [init |-> 65535, refin |-> TRUE, refout |-> TRUE, xorout |-> 65535,
     check |-> 36974, residue |-> 61624]                \* 0x906e, 0xf0b8

CRC_16_ISO_HDLC == CRC_16_IBM_SDLC
CRC_16_ISO_IEC_14443_3_B == CRC_16_IBM_SDLC
CRC_16_X_25 == CRC_16_IBM_SDLC

CRC_16_ISO_IEC_14443_3_A ==
    [init |-> 50886, refin |-> TRUE, refout |-> TRUE, xorout |-> 0,
     check |-> 48901, residue |-> 0]                    \* init 0xc6c6, 0xbf05

CRC_16_KERMIT ==
    [init |-> 0, refin |-> TRUE, refout |-> TRUE, xorout |-> 0,
     check |-> 8585, residue |-> 0]                     \* 0x2189

CRC_16_CCITT == CRC_16_KERMIT
CRC_16_LORA == CRC_16_XMODEM

\* every named constant of the crate (the aliases are equal values)
Catalog ==
    {CRC_16_XMODEM, CRC_16_GENIBUS, CRC_16_GSM, CRC_16_IBM_3740,
     CRC_16_AUTOSAR, CRC_16_IBM_SDLC, CRC_16_ISO_HDLC,
     CRC_16_ISO_IEC_14443_3_B, CRC_16_X_25, CRC_16_ISO_IEC_14443_3_A,
     CRC_16_KERMIT, CRC_16_CCITT, CRC_16_LORA}

\* Algorithm's fields are public: parameter sets a caller may build itself
\* (0x0001, 0x1234 and 0x8001 among the init values, 0x5555 among xorout)
CallerDefined ==
    [init : {0, 1, 4660, 32769, 65535}, refin : BOOLEAN, refout : BOOLEAN,
     xorout : {0, 21845, 65535}, check : {0}, residue : {0}]

Algorithms == Catalog \cup CallerDefined

----------------------------------------------------------------------------
(* Inputs *)

\* register values handed to the primitive
Regs == {(k * 40503) % U16 : k \in 0 .. NumRegs - 1}

\* every byte value
AllBytes == 0 .. U8 - 1

\* byte values buffers are built from (0x00, 0x31, 0x62, ...)
ByteVals == {(k * 49) % U8 : k \in 0 .. NumByteVals - 1}

\* buffers of at most n bytes
Buffers(n) == UNION {[1 .. k -> ByteVals] : k \in 0 .. n}

\* b"123456789"
CheckStr == <<49, 50, 51, 52, 53, 54, 55, 56, 57>>

DigestIds == 1 .. NumDigests

\* byte values chunks are built from (0x31 and 0x80)
ChunkVals == {49, 128}

\* chunks of at most n bytes
Chunks(n) == UNION {[1 .. k -> ChunkVals] : k \in 0 .. n}

RECURSIVE TotalFed(_, _)
\* bytes fed so far to the Digests 1 .. n
TotalFed(ds, n) == IF n = 0 THEN 0 ELSE Len(ds[n].fed) + TotalFed(ds, n - 1)

\* a binding that holds no Digest yet
NoDigest ==
    [state |-> "none", algorithm |-> CRC_16_XMODEM, value |-> 0, fed |-> <<>>,
     finalized |-> FALSE, ret |-> -1, retFed |-> <<>>]

\* #[derive(Debug, Copy, Clone)] on Digest: passing self by value copies it
DigestIsCopy == TRUE

\* the Algorithm values Digests are made from
DigestAlgorithms ==
    Catalog \cup {a \in CallerDefined :
                     a.init = 4660 /\ a.xorout = 21845 /\ a.refin # a.refout}

\* the tests of tests/check.rs and the constant each one checks
CheckTests ==
    [crc_16_xmodem |-> CRC_16_XMODEM, crc_16_genibus |-> CRC_16_GENIBUS,
     crc_16_gsm |-> CRC_16_GSM, crc_16_ibm_3740 |-> CRC_16_IBM_3740,
     crc_16_ibm_sdlc |-> CRC_16_IBM_SDLC,
     crc_16_iso_iec_1443_3_a |-> CRC_16_ISO_IEC_14443_3_A,
     crc_16_kermit |-> CRC_16_KERMIT]

\* the engine with init() reflecting init whatever refin is
checksum_reflect_always(a, bs) ==
    finalize(a, Algorithm_update(a, reverse_bits16(a.init), bs))

----------------------------------------------------------------------------
(* The state before any call *)

Idle ==
    /\ crc = 0
    /\ data = 0
    /\ out = 0
    /\ alg = CRC_16_XMODEM
    /\ bytes = <<>>
    /\ result = -1
    /\ digests = [d \in DigestIds |-> NoDigest]
    /\ testRes = [t \in DOMAIN CheckTests |-> -1]
    /\ altRes = [t \in DOMAIN CheckTests |-> -1]

----------------------------------------------------------------------------
(* The primitive, applied to one register and one byte *)

InitUpdate ==
    /\ pc = "update"
    /\ crc \in Regs
    /\ data \in AllBytes
    /\ out = 0
    /\ alg = CRC_16_XMODEM
    /\ bytes = <<>>
    /\ result = -1
    /\ digests = [d \in DigestIds |-> NoDigest]
    /\ testRes = [t \in DOMAIN CheckTests |-> -1]
    /\ altRes = [t \in DOMAIN CheckTests |-> -1]

CallUpdate ==
    /\ pc = "update"
    /\ out' = update(crc, data)
    /\ pc' = "updated"
    /\ UNCHANGED <<crc, data, alg, bytes, result, digests, testRes, altRes>>

SpecUpdate == InitUpdate /\ [][CallUpdate]_vars

----------------------------------------------------------------------------
(* Algorithm::checksum, applied to one Algorithm and one buffer *)

InitChecksum ==
    /\ pc = "checksum"
    /\ alg \in Algorithms
    /\ bytes \in Buffers(MaxLen) \cup {CheckStr}
    /\ result = -1
    /\ crc = 0
    /\ data = 0
    /\ out = 0
    /\ digests = [d \in DigestIds |-> NoDigest]
    /\ testRes = [t \in DOMAIN CheckTests |-> -1]
    /\ altRes = [t \in DOMAIN CheckTests |-> -1]

CallChecksum ==
    /\ pc = "checksum"
    /\ result' = checksum(alg, bytes)
    /\ pc' = "checksummed"
    /\ UNCHANGED <<crc, data, out, alg, bytes, digests, testRes, altRes>>

SpecChecksum == InitChecksum /\ [][CallChecksum]_vars

----------------------------------------------------------------------------
(* tests/check.rs: each test runs checksum(b"123456789") on its constant *)

InitCheckTests ==
    /\ pc = "tests"
    /\ Idle

RunCheckTest(t) ==
    /\ pc = "tests"
    /\ testRes[t] = -1
    /\ testRes' = [testRes EXCEPT ![t] = checksum(CheckTests[t], CheckStr)]
    /\ altRes' =
           [altRes EXCEPT ![t] = checksum_reflect_always(CheckTests[t], CheckStr)]
    /\ UNCHANGED <<pc, crc, data, out, alg, bytes, result, digests>>

NextCheckTests == \E t \in DOMAIN CheckTests : RunCheckTest(t)

SpecCheckTests == InitCheckTests /\ [][NextCheckTests]_vars

----------------------------------------------------------------------------
(* Digests made from one shared Algorithm, their calls interleaved *)

Init ==
    /\ pc = "digests"
    /\ alg \in DigestAlgorithms
    /\ crc = 0
    /\ data = 0
    /\ out = 0
    /\ bytes = <<>>
    /\ result = -1
    /\ digests = [d \in DigestIds |-> NoDigest]
    /\ testRes = [t \in DOMAIN CheckTests |-> -1]
    /\ altRes = [t \in DOMAIN CheckTests |-> -1]

\* const fn new(algorithm: &'a Algorithm) -> Self
Digest_new(a) ==
    [state |-> "live", algorithm |-> a, value |-> init(a), fed |-> <<>>,
     finalized |-> FALSE, ret |-> -1, retFed |-> <<>>]

\* pub const fn digest(&self) -> Digest, bound to d
CallDigest(d) ==
    /\ pc = "digests"
    /\ digests[d].state = "none"
    /\ digests' = [digests EXCEPT ![d] = Digest_new(alg)]
    /\ UNCHANGED <<pc, crc, data, out, alg, bytes, result, testRes, altRes>>

\* Digest::update starting again from init() on every call
Digest_update_restart(ds, d, chunk) ==
    [ds EXCEPT
        ![d].value = Algorithm_update(ds[d].algorithm, init(ds[d].algorithm), chunk),
        ![d].fed = ds[d].fed \o chunk]

\* Digest::update writing the register of every live Digest (one shared register)
Digest_update_shared(ds, d, chunk) ==
    [e \in DOMAIN ds |->
        IF e = d
        THEN [ds[e] EXCEPT
                 !.value = Algorithm_update(ds[d].algorithm, ds[d].value, chunk),
                 !.fed = ds[d].fed \o chunk]
        ELSE IF ds[e].state = "live"
        THEN [ds[e] EXCEPT
                 !.value = Algorithm_update(ds[d].algorithm, ds[d].value, chunk)]
        ELSE ds[e]]

\* pub fn update(&mut self, bytes: &[u8]), on the Digest bound to d
Digest_update(ds, d, chunk) ==
    [ds EXCEPT
        ![d].value = Algorithm_update(ds[d].algorithm, ds[d].value, chunk),
        ![d].fed = ds[d].fed \o chunk]

CallDigestUpdate(d, chunk) ==
    /\ pc = "digests"
    /\ digests[d].state = "live"
    /\ TotalFed(digests, NumDigests) + Len(chunk) <= MaxFed
    /\ digests' = Digest_update(digests, d, chunk)
    /\ UNCHANGED <<pc, crc, data, out, alg, bytes, result, testRes, altRes>>

\* pub const fn finalize(self) -> u16, on the Digest bound to d: self is
\* passed by value, which moves out of d unless Digest is Copy
Digest_finalize(ds, d) ==
    [ds EXCEPT
        ![d].ret = finalize(ds[d].algorithm, ds[d].value),
        ![d].retFed = ds[d].fed,
        ![d].finalized = TRUE,
        ![d].state = IF DigestIsCopy THEN "live" ELSE "moved"]

CallDigestFinalize(d) ==
    /\ pc = "digests"
    /\ digests[d].state = "live"
    /\ digests' = Digest_finalize(digests, d)
    /\ UNCHANGED <<pc, crc, data, out, alg, bytes, result, testRes, altRes>>

Next ==
    \E d \in DigestIds :
        \/ CallDigest(d)
        \/ \E chunk \in Chunks(MaxChunk) : CallDigestUpdate(d, chunk)
        \/ CallDigestFinalize(d)

Spec == Init /\ [][Next]_vars

----------------------------------------------------------------------------
(* Reference definitions the claims compare the code against.  They work   *)
(* on sets of bit positions and share nothing with the code's arithmetic.  *)

\* the positions of the one bits of x, a 16-bit value
Bits(x) == {k \in 0 .. 15 : (x \div (2 ^ k)) % 2 = 1}

RECURSIVE FromBits(_, _)
\* the number whose one bits are the members of S up to position k
FromBits(S, k) ==
    IF k < 0 THEN 0 ELSE (IF k \in S THEN 2 ^ k ELSE 0) + FromBits(S, k - 1)

RefXor(x, y) ==
    FromBits((Bits(x) \ Bits(y)) \cup (Bits(y) \ Bits(x)), 15)

\* x with its low w bits in the opposite order
RefReflect(x, w) == FromBits({w - 1 - k : k \in Bits(x)}, 15)

\* one LSB-first step of the shift register, polynomial 0x8408
LsbStep(x) == IF x % 2 = 1 THEN RefXor(x \div 2, 33800) ELSE x \div 2

\* one MSB-first step of the shift register, polynomial 0x1021
MsbStep(x) ==
    IF x >= 32768 THEN RefXor((2 * x) % 65536, 4129) ELSE (2 * x) % 65536

\* the classical bit-at-a-time LSB-first update of register r by byte b
Classic(r, b) ==
    LET steps[n \in 0 .. 8] ==
            IF n = 0 THEN RefXor(r, b) ELSE LsbStep(steps[n - 1])
    IN  steps[8]

\* the MSB-first update of register r by byte b
MsbByte(r, b) ==
    LET steps[n \in 0 .. 8] ==
            IF n = 0 THEN RefXor(r, b * 256) ELSE MsbStep(steps[n - 1])
    IN  steps[8]

\* the MSB-first register after the bytes of bs, from r0; each byte reflected
\* first when refl
MsbRegister(r0, bs, refl) ==
    LET loop[s \in [r : 0 .. 65535, i : 0 .. Len(bs)]] ==
            IF s.i < Len(bs)
            THEN loop[[r |-> MsbByte(s.r, IF refl THEN RefReflect(bs[s.i + 1], 8)
                                          ELSE bs[s.i + 1]),
                       i |-> s.i + 1]]
            ELSE s.r
    IN  loop[[r |-> r0, i |-> 0]]

\* the reference CRC-16/XMODEM: register from 0x0000, no reflection, no XOR
RefXmodem(bs) == MsbRegister(0, bs, FALSE)

\* the standard parameterised CRC-16 model, polynomial 0x1021
StdCrc(a, bs) ==
    LET r == MsbRegister(a.init, bs, a.refin)
    IN  RefXor(IF a.refout THEN RefReflect(r, 16) ELSE r, a.xorout)

\* the check values the catalogue publishes
PublishedCheck(a) ==
    CASE a = CRC_16_XMODEM -> 12739              \* 0x31C3
      [] a = CRC_16_KERMIT -> 8585               \* 0x2189
      [] a = CRC_16_IBM_SDLC -> 36974            \* 0x906E
      [] a = CRC_16_GENIBUS -> 54862             \* 0xD64E
      [] a = CRC_16_GSM -> 52796                 \* 0xCE3C
      [] a = CRC_16_IBM_3740 -> 10673            \* 0x29B1
      [] a = CRC_16_ISO_IEC_14443_3_A -> 48901   \* 0xBF05

\* the residues the catalogue publishes
PublishedResidue(a) ==
    CASE a \in {CRC_16_XMODEM, CRC_16_IBM_3740, CRC_16_KERMIT,
                CRC_16_ISO_IEC_14443_3_A} -> 0
      [] a \in {CRC_16_GENIBUS, CRC_16_GSM} -> 7439     \* 0x1D0F
      [] a = CRC_16_IBM_SDLC -> 61624                   \* 0xF0B8

\* the two bytes of CRC c as a sender appends them
CrcBytes(a, c) ==
    IF a.refin THEN <<c % 256, c \div 256>> ELSE <<c \div 256, c % 256>>

----------------------------------------------------------------------------
(* Claims *)

\* C1: for every register r and byte b, update(r, b) equals the classical
\* bit-at-a-time LSB-first update (x := r XOR b, then eight times: shift
\* right, XOR 0x8408 when the bit shifted out was 1).
C1_UpdateIsBitwiseCrc ==
    pc = "updated" => out = Classic(crc, data)

\* a call where data ^ (crc as u8) has a high nibble, so that << 4 wraps in u8,
\* and the register has a high byte to bring down
C1_Witness ==
    /\ pc = "updated"
    /\ BitXor(data, crc % U8) >= 16
    /\ crc >= U8
    /\ out # crc

\* C2: for every named constant of the catalog, checksum(b"123456789") is its
\* check field, which is the published check value.
C2_CheckValues ==
    (pc = "checksummed" /\ alg \in Catalog /\ bytes = CheckStr)
        => (result = alg.check /\ result = PublishedCheck(alg))

C2_Witness ==
    /\ pc = "checksummed"
    /\ alg = CRC_16_X_25
    /\ bytes = CheckStr
    /\ result = 36974

\* C3: a Digest fed the chunks c1 .. cn and then finalized returns
\* checksum(c1 \o ... \o cn), whatever the chunking.
C3_StreamingEquivalence ==
    \A d \in DigestIds :
        digests[d].finalized => digests[d].ret = checksum(alg, digests[d].retFed)

\* a Digest finalized after more bytes than one update call can carry
C3_Witness ==
    \E d \in DigestIds :
        /\ digests[d].finalized
        /\ Len(digests[d].retFed) > MaxChunk
        /\ alg = CRC_16_GENIBUS

\* C4: CRC_16_XMODEM.checksum(s) equals the reference MSB-first CRC-16/XMODEM.
C4_XmodemMatchesReference ==
    (pc = "checksummed" /\ alg = CRC_16_XMODEM) => result = RefXmodem(bytes)

C4_Witness ==
    /\ pc = "checksummed"
    /\ alg = CRC_16_LORA
    /\ Len(bytes) = MaxLen
    /\ result # 0

\* C5: for every Algorithm value and every buffer, checksum(bytes) equals the
\* standard parameterised CRC-16 model (init in MSB-first convention).
C5_StandardConformance ==
    pc = "checksummed" => result = StdCrc(alg, bytes)

\* C6: once finalize() has been called on a Digest, neither update() nor
\* finalize() can be called on that Digest again.
C6_FinalizeConsumes ==
    \A d \in DigestIds :
        digests[d].finalized =>
            ~ENABLED (CallDigestFinalize(d) \/ CallDigestUpdate(d, <<>>))

\* C7: a call on one Digest changes that Digest only (the other Digests and
\* the Algorithm are unchanged), each register is the fold of the chunks fed
\* to its own Digest, and each finalize returns the checksum of those chunks.
C7_DigestsIndependent ==
    /\ [][/\ alg' = alg
          /\ \A d \in DigestIds :
                digests'[d] # digests[d] =>
                    \A e \in DigestIds \ {d} : digests'[e] = digests[e]]_vars
    /\ [](\A d \in DigestIds :
            /\ digests[d].state = "live" =>
                   digests[d].value =
                       Algorithm_update(alg, init(alg), digests[d].fed)
            /\ digests[d].finalized =>
                   digests[d].ret =
                       finalize(alg, Algorithm_update(alg, init(alg),
                                                      digests[d].retFed)))

\* two Digests of one Algorithm, fed different bytes, both finalized
C7_Witness ==
    \E d, e \in DigestIds :
        /\ d # e
        /\ digests[d].finalized
        /\ digests[e].finalized
        /\ Len(digests[d].retFed) >= 1
        /\ Len(digests[e].retFed) >= 1
        /\ digests[d].retFed # digests[e].retFed
        /\ digests[d].ret # digests[e].ret

\* C8: checksum of the empty buffer is finalize(init()), that is
\* ((init reflected iff refin) reflected iff not refout) XOR xorout; it is 0
\* for XMODEM and for KERMIT; update(register, empty) is the register.
C8_EmptyInput ==
    (pc = "checksummed" /\ bytes = <<>>) =>
        /\ result = finalize(alg, init(alg))
        /\ result =
               LET r0 == IF alg.refin THEN RefReflect(alg.init, 16) ELSE alg.init
                   r1 == IF ~alg.refout THEN RefReflect(r0, 16) ELSE r0
               IN  RefXor(r1, alg.xorout)
        /\ alg \in {CRC_16_XMODEM, CRC_16_KERMIT} => result = 0
        /\ \A r \in Regs : Algorithm_update(alg, r, <<>>) = r

C8_Witness ==
    /\ pc = "checksummed"
    /\ bytes = <<>>
    /\ alg = CRC_16_ISO_IEC_14443_3_A
    /\ result = 25443

\* C9 as stated: once every check test has run, the engine that reflects init
\* whatever refin is has failed at least one of them.
C9_ChecksDistinguishPolicies ==
    (\A t \in DOMAIN CheckTests : testRes[t] # -1) =>
        \E t \in DOMAIN CheckTests : altRes[t] # CheckTests[t].check

\* C9 as amended: the engine that reflects init whatever refin is passes every
\* check test too, with the value this engine computes: every cataloged
\* variant with refin = false has an init that reads the same reflected.
C9_ChecksDoNotDistinguishPolicies ==
    \A t \in DOMAIN CheckTests :
        testRes[t] # -1 =>
            /\ testRes[t] = CheckTests[t].check
            /\ altRes[t] = testRes[t]
            /\ ~CheckTests[t].refin =>
                   RefReflect(CheckTests[t].init, 16) = CheckTests[t].init

\* every check test has run
C9_Witness ==
    \A t \in DOMAIN CheckTests : testRes[t] # -1 /\ altRes[t] # -1

\* C10: for every named variant and buffer M, the checksum of M followed by
\* the two bytes of checksum(M), XOR xorout, is the variant's residue.
C10_Residue ==
    (pc = "checksummed" /\ alg \in Catalog) =>
        /\ RefXor(checksum(alg, bytes \o CrcBytes(alg, result)), alg.xorout)
               = alg.residue
        /\ alg.residue = PublishedResidue(alg)

C10_Witness ==
    /\ pc = "checksummed"
    /\ alg = CRC_16_ISO_HDLC
    /\ Len(bytes) = MaxLen
    /\ result \notin {0, 65535}

====
